---------------------------- MODULE Spec2Model ----------------------------
(* jupyter_output_monitor/_monitor.py as a state machine.                  *)
(*                                                                         *)
(* Spec     : one invocation of monitor(): the directory check, the poll   *)
(*            for input cells, the loop over the input cells and the watch *)
(*            loop over the output cells, up to the call of                *)
(*            write_profiled_notebook_copy.                                *)
(* ProfSpec : write_profiled_notebook_copy on an event log and a notebook  *)
(*            drawn from bounded sets.                                     *)
(* RunSpec  : Spec followed by the call of line 192 on the log the run     *)
(*            wrote.                                                       *)
(*                                                                         *)
(* All model the bodies of the functions with their parameters bound.      *)
(* (The option of line 45, --notebook-copy, reaches the function as the    *)
(* keyword notebook_copy, and line 49 names the parameter copy_notebook.)  *)
EXTENDS Integers, Sequences, FiniteSets, TLC

\* ------------------------------------------------------------- bounds
\* Visible-or-not input cells the page shows at a poll.
MaxInputs == 2
\* Output cells one query of the watch loop returns.
MaxOutputs == 2
\* Output cells the watch loops of one run visit (caps the busy poll).
MaxScans == 3
\* Data rows of an event log given to write_profiled_notebook_copy.
MaxRows == 4
\* Cells of the source notebook.
MaxCells == 2

\* ---------------------------------------------------------- python strings
\* A string is a sequence of tokens: single characters, and the words
\* "border-color:", "rgb", ... taken as units. None is Python's None.
None == <<"None">>

Digits == {"0", "1", "2", "3", "4", "5", "6", "7", "8", "9"}

DigitVal(c) ==
  CASE c = "0" -> 0 [] c = "1" -> 1 [] c = "2" -> 2 [] c = "3" -> 3
    [] c = "4" -> 4 [] c = "5" -> 5 [] c = "6" -> 6 [] c = "7" -> 7
    [] c = "8" -> 8 [] c = "9" -> 9

\* s[i:j] with 1-based i and exclusive j.
Slice(s, i, j) == [k \in 1..(j - i) |-> s[i + k - 1]]

MatchAt(s, pat, i) ==
  /\ i >= 1
  /\ i + Len(pat) - 1 <= Len(s)
  /\ \A k \in 1..Len(pat) : s[i + k - 1] = pat[k]

\* str.index(pat, from): the first position >= from where pat occurs, 0 when
\* there is none (Python raises ValueError).
PyIndex(s, pat, from) ==
  LET hits == {i \in from..Len(s) : MatchAt(s, pat, i)}
  IN  IF hits = {} THEN 0 ELSE CHOOSE i \in hits : \A j \in hits : i <= j

\* pat in s
PyIn(pat, s) == PyIndex(s, pat, 1) # 0

\* q[-1]
Last(q) == q[Len(q)]

\* str.strip()
RECURSIVE LStrip(_)
LStrip(s) == IF s # <<>> /\ Head(s) = " " THEN LStrip(Tail(s)) ELSE s

RECURSIVE RStrip(_)
RStrip(s) ==
  IF s # <<>> /\ s[Len(s)] = " " THEN RStrip(SubSeq(s, 1, Len(s) - 1)) ELSE s

PyStrip(s) == LStrip(RStrip(s))

\* str.split(sep) for a one-token separator.
RECURSIVE PySplit(_, _)
PySplit(s, sep) ==
  LET p == PyIndex(s, <<sep>>, 1)
  IN  IF p = 0 THEN <<s>>
      ELSE <<Slice(s, 1, p)>> \o PySplit(Slice(s, p + 1, Len(s) + 1), sep)

RECURSIVE DigitsValue(_)
DigitsValue(s) ==
  IF s = <<>> THEN 0
  ELSE 10 * DigitsValue(SubSeq(s, 1, Len(s) - 1)) + DigitVal(s[Len(s)])

\* int(x): surrounding blanks are dropped, an optional sign, then digits only.
IntOk(x) ==
  LET t == PyStrip(x)
      d == IF t # <<>> /\ Head(t) \in {"-", "+"} THEN Tail(t) ELSE t
  IN  d # <<>> /\ \A k \in 1..Len(d) : d[k] \in Digits

PyInt(x) ==
  LET t == PyStrip(x)
  IN  IF Head(t) = "-" THEN 0 - DigitsValue(Tail(t))
      ELSE IF Head(t) = "+" THEN DigitsValue(Tail(t))
      ELSE DigitsValue(t)

\* ------------------------------------------------------------ constants
RG_SPECIAL == <<143, 56>>

\* ---------------------------------------------------------- border colour
HasBorderColor(style) ==
  style # None /\ PyIn(<<"border-color:", " ", "rgb", "(">>, style)

\* Lines 150-153: the text between the first "(" after the first
\* "border-color:" and the next ")", split at "," into three integers.
\* err: a ValueError (no ")", a part that is no integer, not three parts).
ParseBorder(style) ==
  LET p0        == PyIndex(style, <<"border-color:">>, 1)
      start_pos == PyIndex(style, <<"(">>, p0) + 1
      end_pos   == PyIndex(style, <<")">>, start_pos)
      parts     == PySplit(Slice(style, start_pos, end_pos), ",")
  IN  IF end_pos = 0 THEN [err |-> TRUE, r |-> 0, g |-> 0, b |-> 0]
      ELSE IF \E k \in 1..Len(parts) : ~IntOk(parts[k])
        THEN [err |-> TRUE, r |-> 0, g |-> 0, b |-> 0]
      ELSE IF Len(parts) # 3 THEN [err |-> TRUE, r |-> 0, g |-> 0, b |-> 0]
      ELSE [err |-> FALSE, r |-> PyInt(parts[1]), g |-> PyInt(parts[2]),
            b |-> PyInt(parts[3])]

\* Only the red channel is compared.
IsMonitoredRedOnly(rgb) == rgb.r = RG_SPECIAL[1]

\* Lines 159-160
IsMonitored(rgb) == <<rgb.r, rgb.g>> = RG_SPECIAL

Rgb(r, g, b) ==
  <<"border-color:", " ", "rgb", "(">> \o r \o <<",", " ">> \o g
    \o <<",", " ">> \o b \o <<")", ";">>

\* The style attributes a page shows.
Styles ==
  { None,
    <<"color:", " ", "red", ";">>,
    Rgb(<<"1", "4", "3">>, <<"5", "6">>, <<"0">>),
    Rgb(<<"1", "4", "3">>, <<"5", "6">>, <<"1">>),
    Rgb(<<"1", "4", "3">>, <<"5", "7">>, <<"1">>),
    Rgb(<<"1", "4", "2">>, <<"5", "6">>, <<"0">>),
    Rgb(<<"5", "6">>, <<"1", "4", "3">>, <<"1">>),
    <<"border-color:", "rgb", "(", "1", "4", "3", ",", "5", "6", ",", "1", ")">>,
    <<"border-color:", " ", "rgb", "(", "1", "4", "3", ",", " ", "5", "6", ")">>,
    <<"border-color:", " ", "red", ";", " ", "background:", " ", "url", "(", "x",
      ")", ";", " ", "border-color:", " ", "rgb", "(", "1", "4", "3", ",", " ",
      "5", "6", ",", " ", "1", ")">> }


\* ------------------------------------------------------------ the world
\* Raw bytes a screenshot can hold.
Images == {"imgA", "imgB"}

\* No screenshot (an index last_screenshot does not hold).
NoBytes == "none"

\* One element matched by '.jp-OutputArea-output': whether it is visible,
\* whether it holds a div, that div's style and what a screenshot of it shows.
OutputCell ==
  [visible : BOOLEAN, div : BOOLEAN, style : Styles, bytes : Images]

NoRgb == [err |-> FALSE, r |-> 0, g |-> 0, b |-> 0]

\* Lines 134-169 on one output cell: how far the loop body gets with it
\* ("skipped": one of the continues of lines 134-147; "error": line 153
\* raises; "unmonitored": the continue of line 160; "shot": line 169 takes
\* the screenshot), the channels read and the bytes captured.
CellView(cell) ==
  IF ~cell.visible \/ ~cell.div \/ ~HasBorderColor(cell.style)
    THEN [seen |-> "skipped", rgb |-> NoRgb, bytes |-> NoBytes]
  ELSE LET rgb == ParseBorder(cell.style)
       IN  IF rgb.err
             THEN [seen |-> "error", rgb |-> NoRgb, bytes |-> NoBytes]
           ELSE IF ~IsMonitored(rgb)
             THEN [seen |-> "unmonitored", rgb |-> rgb, bytes |-> NoBytes]
           ELSE [seen |-> "shot", rgb |-> rgb, bytes |-> cell.bytes]

CellViews == {CellView(cell) : cell \in OutputCell}

\* Text of an input cell: empty, blank, code.
Texts == {<<>>, <<" ">>, <<"x">>}

\* One element matched by '.jp-InputArea-editor'.
InputCell == [visible : BOOLEAN, text : Texts]

RECURSIVE SeqsUpTo(_, _)
SeqsUpTo(S, n) ==
  IF n = 0 THEN {<<>>}
  ELSE LET shorter == SeqsUpTo(S, n - 1)
       IN  shorter \cup {Append(q, x) : q \in {r \in shorter : Len(r) = n - 1}, x \in S}

\* --------------------------------------------------------------- time
\* isotime() reads the wall clock; the model's clock counts the reads, so
\* that each read is a later instant than the one before.
iso_to_path(time) == <<"colons-replaced", time>>

\* ---------------------------------------------------------- file system
ExplicitOutput == <<"out">>

DefaultOutput(time) == <<"output-", iso_to_path(time)>>

Paths == {ExplicitOutput, DefaultOutput(0)}

Header ==
  [time |-> "time", event |-> "event", index |-> "index",
   screenshot |-> "screenshot"]

\* os.path.join(output, f'{role}-{index:03d}-{iso_to_path(timestamp)}.png')
ScreenshotFilename(output, role, index, timestamp) ==
  <<output, role, index, iso_to_path(timestamp)>>

LogRow(timestamp, event, index, filename) ==
  [time |-> timestamp, event |-> event, index |-> index, screenshot |-> filename]

Absent == [exists |-> FALSE, haslog |-> FALSE, log |-> <<>>, shots |-> {}]

EmptyDir == [exists |-> TRUE, haslog |-> FALSE, log |-> <<>>, shots |-> {}]

\* What an earlier run left under a path.
OldDir(p) ==
  [exists |-> TRUE, haslog |-> TRUE,
   log    |-> <<Header,
                LogRow(0, "execute-input", 0, ScreenshotFilename(p, "input", 0, 0))>>,
   shots  |-> {ScreenshotFilename(p, "input", 0, 0)}]

\* The check finds nothing.
PathExistsNever(disk, p) == FALSE

\* os.path.exists(output)
PathExists(disk, p) == disk[p].exists

\* open(event_log_path, 'w')
OpenForWrite(dir) == [dir EXCEPT !.haslog = TRUE, !.log = <<>>]

\* log.flush(): the buffered records reach the file.
Flushed(dir, buf) == [dir EXCEPT !.log = @ \o buf]

SaveImage(dir, filename) == [dir EXCEPT !.shots = @ \cup {filename}]

\* ------------------------------------------------------- last_screenshot
EmptyMap == [i \in {} |-> NoBytes]

\* Every screenshot counts as a change.
ChangeDetectedAlways(last, output_index, screenshot_bytes) == TRUE

\* Line 173
ChangeDetected(last, output_index, screenshot_bytes) ==
  \/ output_index \notin DOMAIN last
  \/ last[output_index] # screenshot_bytes

\* The new bytes are not kept.
StoreScreenshotDropped(last, output_index, screenshot_bytes) == last

\* Line 187
StoreScreenshot(last, output_index, screenshot_bytes) ==
  [i \in DOMAIN last \cup {output_index} |->
     IF i = output_index THEN screenshot_bytes ELSE last[i]]

\* Line 169: the screenshot just taken of an index replaces the one before.
Taken(shots, output_index, screenshot_bytes) ==
  [i \in DOMAIN shots \cup {output_index} |->
     IF i = output_index THEN screenshot_bytes ELSE shots[i]]

Lookup(map, i) == IF i \in DOMAIN map THEN map[i] ELSE NoBytes


\* ------------------------------------------------------------- state
VARIABLES
  pc,                 \* where monitor() is
  output_arg,         \* --output (None: not given)
  wait_after_execute, \* --wait-after-execute
  copy_notebook,      \* --notebook-copy (None: not given)
  output,             \* the output directory in use
  clock,              \* reads of the wall clock so far
  fs,                 \* directories: exists, event_log.csv, screenshot files
  logbuf,             \* records written to the log and not flushed yet
  written,            \* every record log.write() was given, in order
  browser,            \* whether the browser was launched
  input_cells,        \* the visible input cells (their texts), in page order
  is_visible,         \* is_visible() of each element the poll that found them saw
  input_index,        \* position of the for loop over input_cells
  pending,            \* output cells of the current query still to visit
  last_screenshot,    \* output index -> bytes of the last saved screenshot
  prev_shot,          \* output index -> bytes of the last screenshot taken
  logged_shot,        \* output index -> bytes saved with its last logged record
  scan,               \* what the last visit of an output cell saw and did
  scans,              \* output cells visited so far
  exit_status,        \* the process's exit status, -1 while it runs
  fs0,                \* the directories as they were when monitor() started
  ppc,                \* where write_profiled_notebook_copy is
  log,                \* the data rows of the event log file
  rows,               \* log after lines 196-206: times are elapsed seconds
  row_i,              \* the row the loop of line 215 is at
  last_executed_cell, \* <<>> for None, <<index>> otherwise
  results,            \* the OrderedDict of line 211, in insertion order
  markdown_annotations,
  notebook,           \* the cells of the source notebook, once read
  new_cells,
  error,              \* the exception that ended it, "" for none
  notebook_copy       \* <<>> until line 282 writes it, then <<its cells>>

mvars ==
  <<pc, output_arg, wait_after_execute, copy_notebook, output, clock, fs, logbuf,
    written, browser, input_cells, is_visible, input_index, pending,
    last_screenshot, prev_shot, logged_shot, scan, scans, exit_status, fs0>>

pvars ==
  <<ppc, log, rows, row_i, last_executed_cell, results, markdown_annotations,
    notebook, new_cells, error, notebook_copy>>

vars == <<mvars, pvars>>

\* scan: kind says how far lines 132-187 got with the cell ("none": no cell
\* visited in this watch window yet); r, g, b the channels read; bytes the
\* screenshot taken; prev the bytes of the screenshot taken before of the
\* same index; nlog and before the length of the log and last_screenshot as
\* they were when the visit began.
NoScan ==
  [kind |-> "none", r |-> 0, g |-> 0, b |-> 0, bytes |-> NoBytes,
   prev |-> NoBytes, nlog |-> 0, before |-> EmptyMap]

Visit(kind, rgb, bytes, prev, nlog, before) ==
  [kind |-> kind, r |-> rgb.r, g |-> rgb.g, b |-> rgb.b, bytes |-> bytes,
   prev |-> prev, nlog |-> nlog, before |-> before]

\* write_profiled_notebook_copy not called.
ProfIdle ==
  /\ ppc = "idle"
  /\ log = <<>>
  /\ rows = <<>>
  /\ row_i = 0
  /\ last_executed_cell = <<>>
  /\ notebook = <<>>
  /\ results = <<>>
  /\ markdown_annotations = <<>>
  /\ new_cells = <<>>
  /\ error = ""
  /\ notebook_copy = <<>>

DefaultWait == 10

Init ==
  /\ pc = "start"
  /\ output_arg \in {None, ExplicitOutput}
  /\ wait_after_execute \in {0, DefaultWait}
  /\ copy_notebook \in {None, <<"nb.ipynb">>}
  /\ output = None
  /\ clock = 0
  /\ fs \in {f \in [Paths -> {Absent, OldDir(ExplicitOutput)}] :
               f[DefaultOutput(0)] = Absent}
  /\ fs0 = fs
  /\ logbuf = <<>>
  /\ written = <<>>
  /\ browser = FALSE
  /\ input_cells = <<>>
  /\ is_visible = <<>>
  /\ input_index = 0
  /\ pending = 0
  /\ last_screenshot = EmptyMap
  /\ prev_shot = EmptyMap
  /\ logged_shot = EmptyMap
  /\ scan = NoScan
  /\ scans = 0
  /\ exit_status = -1
  /\ ProfIdle

\* The process is gone: what it held in memory counts no more.
Gone ==
  /\ input_cells' = <<>>
  /\ is_visible' = <<>>
  /\ input_index' = 0
  /\ pending' = 0
  /\ last_screenshot' = EmptyMap
  /\ prev_shot' = EmptyMap
  /\ logged_shot' = EmptyMap
  /\ scans' = 0

\* Lines 51-58: the output directory is chosen, checked and made.
Start ==
  /\ pc = "start"
  /\ LET out == IF output_arg = None THEN DefaultOutput(clock) ELSE output_arg
     IN  /\ output' = out
         /\ clock' = IF output_arg = None THEN clock + 1 ELSE clock
         /\ IF PathExists(fs, out)
              THEN \* lines 55-56: sys.exit(1)
                   /\ pc' = "exited"
                   /\ exit_status' = 1
                   /\ fs' = fs
              ELSE IF fs[out].exists
                THEN \* line 58: os.makedirs raises FileExistsError
                     /\ pc' = "crashed"
                     /\ exit_status' = 1
                     /\ fs' = fs
                ELSE /\ pc' = "open"
                     /\ exit_status' = exit_status
                     /\ fs' = [fs EXCEPT ![out] = EmptyDir]
  /\ UNCHANGED <<output_arg, wait_after_execute, copy_notebook, logbuf, written,
                 browser, input_cells, is_visible, input_index, pending,
                 last_screenshot, prev_shot, logged_shot, scan, scans, fs0, pvars>>

\* Lines 61-66: the log is opened, the header written and flushed.
OpenLog ==
  /\ pc = "open"
  /\ pc' = "launch"
  /\ written' = Append(written, Header)
  /\ fs' = [fs EXCEPT ![output] = Flushed(OpenForWrite(@), Append(logbuf, Header))]
  /\ logbuf' = <<>>
  /\ UNCHANGED <<output_arg, wait_after_execute, copy_notebook, output, clock,
                 browser, input_cells, is_visible, input_index, pending,
                 last_screenshot, prev_shot, logged_shot, scan, scans, exit_status,
                 fs0, pvars>>

\* Lines 70-72
Launch ==
  /\ pc = "launch"
  /\ pc' = "poll"
  /\ browser' = TRUE
  /\ UNCHANGED <<output_arg, wait_after_execute, copy_notebook, output, clock, fs,
                 logbuf, written, input_cells, is_visible, input_index, pending,
                 last_screenshot, prev_shot, logged_shot, scan, scans, exit_status,
                 fs0, pvars>>

\* Invisible elements are kept.
VisibleOrNot(cells) == cells

\* Line 82
Visible(cells) == SelectSeq(cells, LAMBDA c : c.visible)

RECURSIVE TextsOf(_)
TextsOf(cells) ==
  IF cells = <<>> THEN <<>> ELSE <<Head(cells).text>> \o TextsOf(Tail(cells))

\* Lines 74-94: one round of the poll. With no visible input cell it waits
\* and polls again; with one it leaves the loop and resets last_screenshot.
Poll ==
  /\ pc = "poll"
  /\ \E page \in SeqsUpTo(InputCell, MaxInputs) :
       LET found == Visible(page)
       IN  IF Len(found) > 0
             THEN /\ input_cells' = TextsOf(found)
                  /\ is_visible' = [k \in 1..Len(page) |-> page[k].visible]
                  /\ pc' = "cells"
                  /\ last_screenshot' = EmptyMap
                  /\ input_index' = 0
             ELSE /\ pc' = "poll"
                  /\ UNCHANGED <<input_cells, is_visible, last_screenshot, input_index>>
  /\ UNCHANGED <<output_arg, wait_after_execute, copy_notebook, output, clock, fs,
                 logbuf, written, browser, pending, prev_shot, logged_shot, scan, scans,
                 exit_status, fs0, pvars>>


\* Lines 97-120 and 127: one round of the for loop. An input cell whose
\* stripped text is empty is skipped; any other is captured, executed and
\* logged (the record is written, not flushed), and its watch window starts.
ExecuteCell ==
  /\ pc = "cells"
  /\ input_index < Len(input_cells)
  /\ LET text      == input_cells[input_index + 1]
         timestamp == clock
         filename  == ScreenshotFilename(output, "input", input_index, timestamp)
         row       == LogRow(timestamp, "execute-input", input_index, filename)
     IN  IF PyStrip(text) = <<>>
           THEN /\ input_index' = input_index + 1
                /\ pc' = "cells"
                /\ UNCHANGED <<clock, fs, logbuf, written>>
           ELSE /\ input_index' = input_index
                /\ pc' = "watch"
                /\ clock' = clock + 1
                /\ fs' = [fs EXCEPT ![output] = SaveImage(@, filename)]
                /\ logbuf' = Append(logbuf, row)
                /\ written' = Append(written, row)
  /\ UNCHANGED <<output_arg, wait_after_execute, copy_notebook, output, browser,
                 input_cells, is_visible, pending, last_screenshot, prev_shot,
                 logged_shot, scan, scans,
                 exit_status, fs0, pvars>>

Min(a, b) == IF a <= b THEN a ELSE b

\* Lines 128-130: the test of the watch loop and the query for output cells.
\* Whether the window has run out is the wall clock's say: it has when the
\* wait is not positive. A round that finds no output cell changes nothing.
WatchHead ==
  /\ pc = "watch"
  /\ \E expired \in BOOLEAN :
       /\ wait_after_execute <= 0 => expired
       /\ scans >= MaxScans => expired
       /\ IF expired
            THEN /\ pc' = "cells"
                 /\ input_index' = input_index + 1
                 /\ pending' = 0
                 /\ scan' = NoScan
            ELSE /\ pc' = "scan"
                 /\ input_index' = input_index
                 /\ pending' \in 1..Min(MaxOutputs, MaxScans - scans)
                 /\ scan' = scan
  /\ UNCHANGED <<output_arg, wait_after_execute, copy_notebook, output, clock, fs,
                 logbuf, written, browser, input_cells, is_visible,
                 last_screenshot, prev_shot, logged_shot,
                 scans, exit_status, fs0, pvars>>

\* The for loop over output_cells moves on to the next cell.
NextCell ==
  /\ scans' = scans + 1
  /\ pending' = pending - 1
  /\ pc' = IF pending = 1 THEN "watch" ELSE "scan"
  /\ UNCHANGED <<exit_status, input_cells, is_visible, input_index>>

\* Lines 132-187: one output cell of the query.
ScanCell ==
  /\ pc = "scan"
  /\ pending > 0
  /\ \E cell \in CellViews :
       LET rgb == cell.rgb
       IN  IF cell.seen = "skipped"
             THEN \* lines 134-147: continue
                  /\ scan' = Visit("skipped", NoRgb, NoBytes, NoBytes,
                                   Len(written), last_screenshot)
                  /\ NextCell
                  /\ UNCHANGED <<clock, fs, logbuf, written, last_screenshot,
                                 prev_shot, logged_shot>>
           ELSE IF cell.seen = "error"
             THEN \* line 153 raises ValueError: the with block closes the
                  \* log and the exception ends the process
                  /\ scan' = Visit("error", NoRgb, NoBytes, NoBytes,
                                   Len(written), last_screenshot)
                  /\ pc' = "crashed"
                  /\ exit_status' = 1
                  /\ fs' = [fs EXCEPT ![output] = Flushed(@, logbuf)]
                  /\ logbuf' = <<>>
                  /\ Gone
                  /\ UNCHANGED <<clock, written>>
           ELSE IF cell.seen = "unmonitored"
             THEN \* lines 159-160: continue
                  /\ scan' = Visit("unmonitored", rgb, NoBytes, NoBytes,
                                   Len(written), last_screenshot)
                  /\ NextCell
                  /\ UNCHANGED <<clock, fs, logbuf, written, last_screenshot,
                                 prev_shot, logged_shot>>
           ELSE
             LET output_index     == rgb.b
                 screenshot_bytes == cell.bytes
                 changed   == ChangeDetected(last_screenshot, output_index,
                                             screenshot_bytes)
                 timestamp == clock
                 filename  == ScreenshotFilename(output, "output", output_index,
                                                 timestamp)
                 row       == LogRow(timestamp, "output-changed", output_index,
                                     filename)
             IN  /\ scan' = Visit("shot", rgb, screenshot_bytes,
                                  Lookup(prev_shot, output_index), Len(written),
                                  last_screenshot)
                 /\ prev_shot' = Taken(prev_shot, output_index, screenshot_bytes)
                 /\ NextCell
                 /\ IF changed
                      THEN /\ clock' = clock + 1
                           /\ written' = Append(written, row)
                           /\ fs' = [fs EXCEPT ![output] =
                                       Flushed(SaveImage(@, filename),
                                               Append(logbuf, row))]
                           /\ logbuf' = <<>>
                           /\ logged_shot' = Taken(logged_shot, output_index,
                                                  screenshot_bytes)
                           /\ last_screenshot' =
                                StoreScreenshot(last_screenshot, output_index,
                                                screenshot_bytes)
                      ELSE UNCHANGED <<clock, written, fs, logbuf, logged_shot,
                                       last_screenshot>>
  /\ UNCHANGED <<output_arg, wait_after_execute, copy_notebook, output, browser,
                 fs0, pvars>>

\* The copy is never made.
CopyNeverAsked(path) == FALSE

\* Line 191: if copy_notebook
CopyAsked(path) == path # None

\* Lines 97, 189-192: the for loop is exhausted, the with block closes the
\* log and the browser, and the copy of the notebook is written if asked for.
Finish ==
  /\ pc = "cells"
  /\ input_index >= Len(input_cells)
  /\ fs' = [fs EXCEPT ![output] = Flushed(@, logbuf)]
  /\ logbuf' = <<>>
  /\ browser' = FALSE
  /\ IF CopyAsked(copy_notebook)
       THEN /\ pc' = "postprocess"
            /\ exit_status' = exit_status
       ELSE /\ pc' = "done"
            /\ exit_status' = 0
  /\ Gone
  /\ scan' = NoScan
  /\ UNCHANGED <<output_arg, wait_after_execute, copy_notebook, output, clock,
                 written, fs0, pvars>>

Running == pc \in {"open", "launch", "poll", "cells", "watch", "scan"}

\* The process is terminated from outside: what the log's buffer holds is lost.
Kill ==
  /\ Running
  /\ pc' = "killed"
  /\ exit_status' = -9
  /\ logbuf' = <<>>
  /\ Gone
  /\ scan' = NoScan
  /\ UNCHANGED <<output_arg, wait_after_execute, copy_notebook, output, clock, fs,
                 written, browser, fs0, pvars>>

Next ==
  \/ Start
  \/ OpenLog
  \/ Launch
  \/ Poll
  \/ ExecuteCell
  \/ WatchHead
  \/ ScanCell
  \/ Finish
  \/ Kill

Spec == Init /\ [][Next]_vars


\* ------------------------------------------------------ claims on monitor

\* C1: when the watch loop takes a screenshot of a monitored output index,
\* it logs an output-changed event, as the last record and for that index,
\* if and only if no screenshot of the index was taken before or the bytes
\* differ from those of the screenshot taken before; otherwise the log is
\* as it was.
C1_EventIffBytesDiffer ==
  scan.kind = "shot" =>
    IF scan.prev = NoBytes \/ scan.prev # scan.bytes
      THEN /\ Len(written) = scan.nlog + 1
           /\ Last(written).event = "output-changed"
           /\ Last(written).index = scan.b
           /\ Last(fs[output].log) = Last(written)
      ELSE Len(written) = scan.nlog

\* A second screenshot of an index whose bytes differ from the first's, logged.
C1_Witness ==
  /\ scan.kind = "shot"
  /\ scan.prev # NoBytes
  /\ scan.prev # scan.bytes
  /\ Len(written) = scan.nlog + 1

\* C2: visiting an output cell whose (red, green) pair is not RG_SPECIAL
\* leaves the log and last_screenshot as they were, whatever its third
\* channel.
C2_OtherPairNeverLogs ==
  (scan.kind \in {"unmonitored", "shot"} /\ <<scan.r, scan.g>> # RG_SPECIAL) =>
    /\ scan.kind = "unmonitored"
    /\ Len(written) = scan.nlog
    /\ last_screenshot = scan.before

\* A cell with green 57 and third channel 1 was visited while index 1 had a
\* screenshot stored.
C2_Witness ==
  /\ scan.kind = "unmonitored"
  /\ scan.r = 143
  /\ scan.g = 57
  /\ scan.b = 1
  /\ 1 \in DOMAIN last_screenshot

\* C3: at every point of a run, and after the process was terminated from
\* outside, the log on disk holds every record written so far.
C3_DiskHoldsEveryRecord ==
  (Running \/ pc = "killed") => fs[output].log = written

\* C4: started on an output path that exists, monitor exits with status 1
\* with every directory and file as it was, no log opened, nothing written
\* and no browser launched.
C4_CollisionExitsUntouched ==
  (pc # "start" /\ fs0[output].exists) =>
    /\ pc = "exited"
    /\ exit_status = 1
    /\ fs = fs0
    /\ written = <<>>
    /\ ~browser

\* The run ended on a directory that holds an earlier run's log and screenshot.
C4_Witness ==
  /\ pc = "exited"
  /\ fs[output].log # <<>>
  /\ fs[output].shots # {}

ExecuteRows(records) ==
  SelectSeq(records, LAMBDA row : row.event = "execute-input")

\* The indices that records carry, in order.
IndicesOf(records) == [k \in 1..Len(records) |-> records[k].index]

\* How many of input_cells the for loop of line 97 has taken up so far.
CellsTaken == IF pc \in {"watch", "scan"} THEN input_index + 1 ELSE input_index

\* No execute-input record is logged before a poll has found a visible input
\* cell; from then on input_cells holds one entry for each element of the
\* page that is visible, and the execute-input records logged are, in order
\* and once each, those of the cells taken up so far whose text Executes.
ExecutedAre(Executes(_)) ==
  /\ pc \in {"start", "open", "launch", "poll"} => ExecuteRows(written) = <<>>
  /\ pc \in {"cells", "watch", "scan"} =>
       /\ Len(input_cells) > 0
       /\ Len(input_cells) = Cardinality({k \in DOMAIN is_visible : is_visible[k]})
       /\ IndicesOf(ExecuteRows(written))
            = SelectSeq([k \in 1..CellsTaken |-> k - 1],
                        LAMBDA i : Executes(input_cells[i + 1]))

\* C11 as stated: the input cells executed are the visible ones whose text is
\* not empty.
C11_NonEmptyExecuted == ExecutedAre(LAMBDA text : text # <<>>)

\* C11 as amended: monitor logs no execute-input event until a poll has found
\* a visible input cell; it then logs exactly one execute-input event for
\* each visible input cell whose text is not empty once leading and trailing
\* whitespace is stripped, in page order, the index being the cell's place
\* among the visible cells, and none for an invisible cell or for a cell
\* whose text is empty or whitespace only.
C11_StrippedNonEmptyExecuted == ExecutedAre(LAMBDA text : PyStrip(text) # <<>>)

\* The for loop is through a blank cell followed by a cell of code: one
\* execute-input record, of index 1.
C11_Witness ==
  /\ pc = "cells"
  /\ input_cells = <<(<<" ">>), (<<"x">>)>>
  /\ input_index = 2
  /\ IndicesOf(ExecuteRows(written)) = <<1>>


\* The places in a log of the output-changed records of an index.
ChangesOf(records, index) ==
  {p \in 1..Len(records) :
     records[p].event = "output-changed" /\ records[p].index = index}

\* C13: while monitor runs, last_screenshot holds exactly the output indices
\* that have an output-changed record in the log, each with the bytes saved
\* with the last such record; and a screenshot whose bytes are the ones
\* last_screenshot holds for its index logs nothing, in the watch window of
\* whichever input cell it is taken.
C13_MapHoldsLastLoggedBytes ==
  Running =>
    /\ DOMAIN last_screenshot
         = {written[p].index :
              p \in {q \in 1..Len(written) : written[q].event = "output-changed"}}
    /\ DOMAIN logged_shot = DOMAIN last_screenshot
    /\ \A i \in DOMAIN last_screenshot : last_screenshot[i] = logged_shot[i]
    /\ (/\ scan.kind = "shot"
        /\ scan.b \in DOMAIN scan.before
        /\ scan.before[scan.b] = scan.bytes) =>
         /\ Len(written) = scan.nlog
         /\ last_screenshot = scan.before

\* An output logged in the window of one input cell is seen with the same
\* bytes in the window of a later input cell, and nothing is logged.
C13_Witness ==
  /\ pc \in {"watch", "scan"}
  /\ scan.kind = "shot"
  /\ scan.b \in DOMAIN scan.before
  /\ scan.before[scan.b] = scan.bytes
  /\ Len(written) = scan.nlog
  /\ \E p \in ChangesOf(written, scan.b) :
       /\ \A q \in ChangesOf(written, scan.b) : q <= p
       /\ \E e \in (p + 1)..Len(written) : written[e].event = "execute-input"


\* ------------------------------------------- write_profiled_notebook_copy
Events == {"execute-input", "output-changed"}

\* Indices an event log's rows carry.
Indices == {0, 1}

\* The instant of the k-th row of a log: later rows are later, and no two
\* pairs of rows are the same time apart.
TimeOfRow(k) == k * k

RoleOf(event) == IF event = "execute-input" THEN "input" ELSE "output"

\* The data rows of the log file that rows of these events and indices make.
LogOf(shape) ==
  [k \in 1..Len(shape) |->
     LogRow(TimeOfRow(k), shape[k].event, shape[k].index,
            ScreenshotFilename(ExplicitOutput, RoleOf(shape[k].event),
                               shape[k].index, TimeOfRow(k)))]

Logs == {LogOf(shape) : shape \in SeqsUpTo([event : Events, index : Indices], MaxRows)}

\* Cells of a notebook: code with no source, with a blank, with code; markdown.
SourceCells ==
  {[cell_type |-> "code", source |-> <<>>, synthesized |-> FALSE],
   [cell_type |-> "code", source |-> <<" ">>, synthesized |-> FALSE],
   [cell_type |-> "code", source |-> <<"x">>, synthesized |-> FALSE],
   [cell_type |-> "markdown", source |-> <<"x">>, synthesized |-> FALSE]}

Notebooks == SeqsUpTo(SourceCells, MaxCells)

\* Lines 200-206: each time becomes the seconds since the first record. line
\* is the row's place in the file, kept to tell the rows apart.
ElapsedRows(file) ==
  [k \in 1..Len(file) |->
     [time |-> file[k].time - file[1].time, event |-> file[k].event,
      index |-> file[k].index, screenshot |-> file[k].screenshot, line |-> k]]

\* Every index counts as present.
InResultsAlways(res, index) == TRUE

\* index in results
InResults(res, index) == \E k \in 1..Len(res) : res[k].index = index

KeyOf(res, index) == CHOOSE k \in 1..Len(res) : res[k].index = index

\* Lines 219-224
NewResult(row) ==
  [index |-> row.index, execute_input |-> row, output_changed |-> <<>>,
   total |-> <<>>, n_updates |-> <<>>]

\* The elapsed time of a row is taken as its dt.
DtSinceFirstRecord(row, executed) == row.time

\* Line 230
Dt(row, executed) == row.time - executed.time

\* Lines 228-231
WithOutput(res, cell, row) ==
  LET k == KeyOf(res, cell)
      row_dict == [time |-> row.time, event |-> row.event, index |-> row.index,
                   screenshot |-> row.screenshot, line |-> row.line,
                   output_from_cell |-> cell,
                   dt |-> Dt(row, res[k].execute_input)]
  IN  [res EXCEPT ![k].output_changed = Append(@, row_dict)]

\* A single output-changed record counts as none.
HasOutputsOverOne(result) == Len(result.output_changed) > 1

\* Lines 235 and 242
HasOutputs(result) == Len(result.output_changed) > 0

\* Lines 234-237. <<>> is None.
WithTotals(res) ==
  [k \in 1..Len(res) |->
     [res[k] EXCEPT
        !.total = IF HasOutputs(res[k])
                    THEN <<Last(res[k].output_changed).dt>> ELSE <<>>,
        !.n_updates = IF HasOutputs(res[k])
                        THEN <<Len(res[k].output_changed)>> ELSE <<>>]]

\* os.path.basename
Basename(filename) == Tail(filename)

\* Lines 242-254: the text of one annotation, by its parts. The number
\* formats of lines 248-249 are not modelled.
Annotation(result) ==
  IF HasOutputs(result)
    THEN [screenshot |-> <<Basename(Last(result.output_changed).screenshot)>>,
          cell |-> result.index, text |-> "seconds elapsed, output updates",
          seconds |-> result.total, updates |-> result.n_updates]
    ELSE [screenshot |-> <<>>, cell |-> result.index, text |-> "No output.",
          seconds |-> <<>>, updates |-> <<>>]

\* The annotations come out last result first.
AnnotationsReversed(res) ==
  [k \in 1..Len(res) |-> Annotation(res[Len(res) + 1 - k])]

\* Lines 240-254
Annotations(res) == [k \in 1..Len(res) |-> Annotation(res[k])]

\* The count starts one too high.
FirstCodeCellIdxZero == 1 - 1

\* Line 263
FirstCodeCellIdx == -1

\* Every code cell counts.
IsAnyCode(cell) == cell.cell_type = "code"

\* Line 266
IsNonEmptyCode(cell) == cell.cell_type = "code" /\ Len(cell.source) > 0

\* nbformat.v4.new_markdown_cell
new_markdown_cell(source) ==
  [cell_type |-> "markdown", source |-> source, synthesized |-> TRUE]

\* Lines 264-272 from the cell at place i on, with nonempty_code_cell_idx at
\* idx and new_cells at acc. err: markdown_annotations[idx] raises IndexError.
RECURSIVE Weave(_, _, _, _, _)
Weave(cells, anns, i, idx, acc) ==
  IF i > Len(cells) THEN [err |-> FALSE, cells |-> acc]
  ELSE IF ~IsNonEmptyCode(cells[i])
    THEN Weave(cells, anns, i + 1, idx, Append(acc, cells[i]))
  ELSE IF idx + 1 >= Len(anns)
    THEN [err |-> TRUE, cells |-> Append(acc, cells[i])]
  ELSE Weave(cells, anns, i + 1, idx + 1,
             Append(Append(acc, cells[i]), new_markdown_cell(anns[idx + 2])))

ProfInit ==
  /\ pc = "postprocess"
  /\ output_arg = ExplicitOutput
  /\ wait_after_execute = DefaultWait
  /\ copy_notebook = <<"nb.ipynb">>
  /\ output = ExplicitOutput
  /\ clock = 0
  /\ log \in Logs
  /\ fs = [p \in Paths |->
             IF p = ExplicitOutput
               THEN [exists |-> TRUE, haslog |-> TRUE, log |-> <<Header>> \o log,
                     shots |-> {log[k].screenshot : k \in 1..Len(log)}]
               ELSE Absent]
  /\ fs0 = [p \in Paths |-> Absent]
  /\ logbuf = <<>>
  /\ written = <<Header>> \o log
  /\ browser = FALSE
  /\ input_cells = <<>>
  /\ is_visible = <<>>
  /\ input_index = 0
  /\ pending = 0
  /\ last_screenshot = EmptyMap
  /\ prev_shot = EmptyMap
  /\ logged_shot = EmptyMap
  /\ scan = NoScan
  /\ scans = 0
  /\ exit_status = -1
  /\ ppc = "start"
  /\ rows = <<>>
  /\ row_i = 0
  /\ last_executed_cell = <<>>
  /\ notebook = <<>>
  /\ results = <<>>
  /\ markdown_annotations = <<>>
  /\ new_cells = <<>>
  /\ error = ""
  /\ notebook_copy = <<>>

Crash(exception) ==
  /\ ppc' = "crashed"
  /\ error' = exception

\* Lines 196-206. np.recfromcsv gives a file of one data row as an array of
\* no dimension, and line 200 cannot iterate over it: TypeError. A file of
\* the header alone gives an empty array, and the loops run over no row.
ReadLog ==
  /\ ppc = "start"
  /\ IF Len(log) = 1
       THEN /\ Crash("TypeError")
            /\ UNCHANGED <<rows, row_i>>
       ELSE /\ rows' = ElapsedRows(log)
            /\ row_i' = 1
            /\ ppc' = "group"
            /\ error' = error
  /\ UNCHANGED <<mvars, log, last_executed_cell, results, markdown_annotations,
                 notebook, new_cells, notebook_copy>>

\* Lines 215-231: one row of the log.
GroupRow ==
  /\ ppc = "group"
  /\ row_i <= Len(rows)
  /\ LET row == rows[row_i]
     IN  IF ~InResults(results, row.index) /\ row.event = "execute-input"
           THEN /\ results' = Append(results, NewResult(row))
                /\ last_executed_cell' = <<row.index>>
                /\ row_i' = row_i + 1
                /\ UNCHANGED <<ppc, error>>
         ELSE IF row.event = "output-changed"
           THEN IF last_executed_cell = <<>>
                  THEN \* line 230: results[None] raises KeyError
                       /\ Crash("KeyError")
                       /\ UNCHANGED <<results, last_executed_cell, row_i>>
                  ELSE /\ results' = WithOutput(results, last_executed_cell[1], row)
                       /\ row_i' = row_i + 1
                       /\ UNCHANGED <<ppc, error, last_executed_cell>>
         ELSE /\ row_i' = row_i + 1
              /\ UNCHANGED <<ppc, error, results, last_executed_cell>>
  /\ UNCHANGED <<mvars, log, rows, markdown_annotations, notebook, new_cells,
                 notebook_copy>>

\* Lines 234-237
Totals ==
  /\ ppc = "group"
  /\ row_i > Len(rows)
  /\ ppc' = "totals"
  /\ results' = WithTotals(results)
  /\ UNCHANGED <<mvars, log, rows, row_i, last_executed_cell,
                 markdown_annotations, notebook, new_cells, error, notebook_copy>>

\* Lines 240-254
Annotate ==
  /\ ppc = "totals"
  /\ ppc' = "annotated"
  /\ markdown_annotations' = Annotations(results)
  /\ UNCHANGED <<mvars, log, rows, row_i, last_executed_cell, results, notebook,
                 new_cells, error, notebook_copy>>

\* Line 257
ReadNotebook ==
  /\ ppc = "annotated"
  /\ ppc' = "read"
  /\ notebook' \in Notebooks
  /\ UNCHANGED <<mvars, log, rows, row_i, last_executed_cell, results,
                 markdown_annotations, new_cells, error, notebook_copy>>

\* Lines 262-274
WeaveCells ==
  /\ ppc = "read"
  /\ LET woven == Weave(notebook, markdown_annotations, 1, FirstCodeCellIdx, <<>>)
     IN  /\ new_cells' = woven.cells
         /\ IF woven.err
              THEN Crash("IndexError")
              ELSE /\ ppc' = "woven"
                   /\ error' = error
  /\ UNCHANGED <<mvars, log, rows, row_i, last_executed_cell, results,
                 markdown_annotations, notebook, notebook_copy>>

\* Lines 276-282
WriteNotebook ==
  /\ ppc = "woven"
  /\ ppc' = "written"
  /\ notebook_copy' = <<new_cells>>
  /\ UNCHANGED <<mvars, log, rows, row_i, last_executed_cell, results,
                 markdown_annotations, notebook, new_cells, error>>

ProfNext ==
  \/ ReadLog
  \/ GroupRow
  \/ Totals
  \/ Annotate
  \/ ReadNotebook
  \/ WeaveCells
  \/ WriteNotebook

ProfSpec == ProfInit /\ [][ProfNext]_vars

\* Line 192: monitor calls write_profiled_notebook_copy on the event log it
\* has closed. The first line of the file gives the column names, the lines
\* after it are the data rows.
CallProf ==
  /\ pc = "postprocess"
  /\ ppc = "idle"
  /\ ppc' = "start"
  /\ log' = Tail(fs[output].log)
  /\ UNCHANGED <<mvars, rows, row_i, last_executed_cell, results,
                 markdown_annotations, notebook, new_cells, error, notebook_copy>>

RunNext ==
  \/ Next
  \/ CallProf
  \/ ProfNext

\* One invocation of monitor() with the call of line 192 carried out.
RunSpec == Init /\ [][RunNext]_vars


\* --------------------------------- claims on write_profiled_notebook_copy
\* The loop of line 215 has taken every row.
PastGroup == ppc # "start" /\ row_i > Len(rows)

\* Lines 234-237 have run.
PastTotals == PastGroup /\ ppc # "group"

\* Lines 240-254 have run.
PastAnnotate == PastTotals /\ ppc # "totals"

\* The loop of line 264 has ended, by itself or by an IndexError.
PastWeave == ppc \in {"woven", "written"} \/ error = "IndexError"

\* The lines of the log file whose records a result holds as output-changed.
LinesUnder(result) ==
  {result.output_changed[j].line : j \in 1..Len(result.output_changed)}

\* Non-empty code cells of a notebook.
CodeCells(cells) ==
  {i \in 1..Len(cells) : cells[i].cell_type = "code" /\ cells[i].source # <<>>}

Synthesized(cells) == {i \in 1..Len(cells) : cells[i].synthesized}

\* C5: for every executed cell with an output-changed record grouped under
\* it, total is the time in the log file of the last such record minus the
\* time of the cell's execute-input record, and n_updates is the number of
\* such records.
C5_TotalIsLastMinusExecute ==
  PastTotals =>
    \A k \in 1..Len(results) :
      LET result == results[k]
      IN  result.output_changed # <<>> =>
            /\ result.total =
                 <<log[Last(result.output_changed).line].time
                     - log[result.execute_input.line].time>>
            /\ result.n_updates = <<Cardinality(LinesUnder(result))>>
            /\ \A p \in LinesUnder(result) : log[p].event = "output-changed"

\* The log execute-input(0, t0), output-changed(0, t1), output-changed(0, t2)
\* of a later cell: total = t2 - t0, n_updates = 2.
C5_Witness ==
  /\ PastTotals
  /\ Len(log) = 4
  /\ log[1].event = "execute-input"
  /\ log[2].event = "execute-input" /\ log[2].index # log[1].index
  /\ log[3].event = "output-changed"
  /\ log[4].event = "output-changed"
  /\ results[2].total = <<log[4].time - log[2].time>>
  /\ results[2].n_updates = <<2>>

\* C6: an executed cell has total = None exactly when no output-changed
\* record is grouped under it, and exactly then its annotation is the
\* "No output." text, which refers to no screenshot.
C6_NoOutputIffNoRecords ==
  PastAnnotate =>
    /\ Len(markdown_annotations) = Len(results)
    /\ \A k \in 1..Len(results) :
         /\ markdown_annotations[k].cell = results[k].index
         /\ results[k].output_changed = <<>> <=> results[k].total = <<>>
         /\ results[k].output_changed = <<>>
              <=> markdown_annotations[k].text = "No output."
         /\ results[k].output_changed = <<>>
              <=> markdown_annotations[k].screenshot = <<>>

\* A cell without output next to one with a single output-changed record.
C6_Witness ==
  /\ PastAnnotate
  /\ \E k \in 1..Len(results) :
       /\ results[k].output_changed = <<>>
       /\ markdown_annotations[k].text = "No output."
  /\ \E k \in 1..Len(results) : Len(results[k].output_changed) = 1

\* C7: once the log is grouped, every output-changed record that follows an
\* execute-input record is held once, by the result of the cell of the last
\* execute-input record before it, and by no other.
C7_GroupedUnderLatestExecute ==
  PastGroup =>
    \A p \in 1..Len(log) :
      LET before == {q \in 1..(p - 1) : log[q].event = "execute-input"}
      IN  (log[p].event = "output-changed" /\ before # {}) =>
            LET q == CHOOSE x \in before : \A y \in before : y <= x
            IN  \A k \in 1..Len(results) :
                  (p \in LinesUnder(results[k])) <=> (results[k].index = log[q].index)

\* C8: the notebook written holds as many synthesized markdown cells as the
\* source notebook holds non-empty code cells.
C8_OneAnnotationPerCodeCell ==
  ppc = "written" =>
    Cardinality(Synthesized(notebook_copy[1])) = Cardinality(CodeCells(notebook))

\* A notebook of an empty and a non-empty code cell was written.
C8_Witness ==
  /\ ppc = "written"
  /\ Len(notebook) = 2
  /\ \E i \in 1..2 : notebook[i].cell_type = "code" /\ notebook[i].source = <<>>
  /\ Cardinality(CodeCells(notebook)) = 1
  /\ Cardinality(Synthesized(notebook_copy[1])) = 1

\* C9 as stated: whenever the number of annotations differs from the number
\* of non-empty code cells, the merge ends in an IndexError and no notebook
\* is written.
C9_AnyMismatchIsIndexError ==
  (PastWeave /\ Len(markdown_annotations) # Cardinality(CodeCells(notebook))) =>
    /\ error = "IndexError"
    /\ notebook_copy = <<>>

\* C9 as amended: the merge ends in an IndexError, and no notebook is
\* written, exactly when there are fewer annotations than non-empty code
\* cells; with more, the notebook is written with one synthesized cell per
\* non-empty code cell, the first annotations in their order.
C9_TooFewEntriesIsIndexError ==
  PastWeave =>
    LET n_code == Cardinality(CodeCells(notebook))
    IN  /\ error = "IndexError" <=> Len(markdown_annotations) < n_code
        /\ error = "IndexError" => notebook_copy = <<>>
        /\ (ppc = "written" /\ Len(markdown_annotations) > n_code) =>
             LET made == SelectSeq(notebook_copy[1], LAMBDA c : c.synthesized)
             IN  /\ Len(made) = n_code
                 /\ \A k \in 1..n_code : made[k].source = markdown_annotations[k]

\* One annotation for two non-empty code cells: IndexError.
C9_Witness ==
  /\ error = "IndexError"
  /\ Len(markdown_annotations) = 1
  /\ Cardinality(CodeCells(notebook)) = 2
  /\ notebook_copy = <<>>

\* The rows of a log that are the first execute-input record of their index,
\* in the order of the file: the executed cells.
FirstExecutions(file) ==
  SelectSeq([p \in 1..Len(file) |-> p],
            LAMBDA p : /\ file[p].event = "execute-input"
                       /\ \A q \in 1..(p - 1) :
                            ~(/\ file[q].event = "execute-input"
                              /\ file[q].index = file[p].index))

\* C12: in the notebook written, the cells that are not synthesized are the
\* source notebook's cells in their order; every synthesized cell comes
\* right after a non-empty code cell of the source and every such cell is
\* followed by one; and the k-th synthesized cell holds the annotation made
\* for the k-th executed cell of the log.
C12_AnnotationFollowsItsCell ==
  ppc = "written" =>
    LET copy     == notebook_copy[1]
        made     == SelectSeq(copy, LAMBDA c : c.synthesized)
        executed == FirstExecutions(log)
    IN  /\ SelectSeq(copy, LAMBDA c : ~c.synthesized) = notebook
        /\ \A i \in 1..Len(copy) :
             /\ copy[i].synthesized =>
                  /\ i > 1
                  /\ ~copy[i - 1].synthesized
                  /\ copy[i - 1].cell_type = "code"
                  /\ copy[i - 1].source # <<>>
             /\ (/\ ~copy[i].synthesized
                 /\ copy[i].cell_type = "code"
                 /\ copy[i].source # <<>>) =>
                  /\ i < Len(copy)
                  /\ copy[i + 1].synthesized
        /\ Len(made) <= Len(executed)
        /\ \A k \in 1..Len(made) :
             /\ made[k].cell_type = "markdown"
             /\ made[k].source = Annotation(results[k])
             /\ results[k].index = log[executed[k]].index
             /\ results[k].execute_input.line = executed[k]

\* Two code cells, the log executing cell 1 before cell 0: the copy is code,
\* annotation of cell 1, code, annotation of cell 0.
C12_Witness ==
  /\ ppc = "written"
  /\ Len(notebook) = 2
  /\ Len(notebook_copy[1]) = 4
  /\ notebook_copy[1][2].synthesized
  /\ notebook_copy[1][2].source.cell = 1
  /\ notebook_copy[1][4].synthesized
  /\ notebook_copy[1][4].source.cell = 0
  /\ notebook_copy[1][2].source.text # notebook_copy[1][4].source.text

\* Every output-changed record of a log has an execute-input record before it.
ExecuteComesFirst(records) ==
  \A p \in 1..Len(records) :
    records[p].event = "output-changed" =>
      \E q \in 1..(p - 1) : records[q].event = "execute-input"

\* C14: in the log monitor writes, and in what of it is on disk, every
\* output-changed record has an execute-input record before it; and when
\* write_profiled_notebook_copy, called by monitor on that log, comes to an
\* output-changed row, last_executed_cell is a key of results, so that line
\* 230 never raises KeyError.
C14_OutputRowHasExecutedCell ==
  /\ ExecuteComesFirst(written)
  /\ output # None => ExecuteComesFirst(fs[output].log)
  /\ ppc # "idle" => log = Tail(written)
  /\ (/\ ppc = "group"
      /\ row_i <= Len(rows)
      /\ rows[row_i].event = "output-changed") =>
       /\ last_executed_cell # <<>>
       /\ InResults(results, last_executed_cell[1])
  /\ error # "KeyError"

\* The call made by monitor has grouped a log of two executed cells, with an
\* output-changed record under the second.
C14_Witness ==
  /\ pc = "postprocess"
  /\ PastGroup
  /\ error = ""
  /\ Len(results) = 2
  /\ results[2].output_changed # <<>>

=============================================================================
